---- MODULE Spec2Model ----
(***************************************************************************)
(* Model of flipkart/rag_chain.py: RAGChainBuilder, its history store and   *)
(* the runnable returned by build_chain().                                  *)
(*                                                                          *)
(* build_chain() composes library runnables; each is modelled by what it    *)
(* does when the composed chain is invoked:                                 *)
(*   RunnableWithMessageHistory  calls _get_history once per invoke, puts   *)
(*       a copy of the stored messages under "chat_history", runs the inner *)
(*       chain, and on a successful end adds the input message and the      *)
(*       output message to the history object;                              *)
(*   the dict {"context", "memory", "input"} is a parallel map: every       *)
(*       branch receives the same inner input, the branches run on a thread *)
(*       pool and the map returns once all of them have finished;           *)
(*   create_history_aware_retriever  sends the raw input to the retriever   *)
(*       when chat_history is empty, otherwise the model's rewrite;         *)
(*   create_stuff_documents_chain  formats qa_prompt, which needs all of    *)
(*       its variables in the dict it is given, then calls the model.       *)
(***************************************************************************)
EXTENDS Integers, Sequences, FiniteSets, TLC

\* ---- bounds of the model ----
NThreads == 2
NSessions == 2
NDocs == 2
MaxHistLen == 4

\* self.vector_store.as_retriever(search_kwargs={"k": 3})
TopK == 3

Threads == 1..NThreads
Sessions == 1..NSessions
Docs == 1..NDocs
Inputs == {"a", "b"}
Queries == {"q"}
Memories == {"none", "prefs"}
Answers == {"ans"}

VARIABLES
    history_store,   \* self.history_store: dict session id -> history object
    heap,            \* heap[o]: the messages list of ChatMessageHistory object o
    pc,              \* position of each caller thread in invoke()
    session,         \* config["configurable"]["session_id"] of the running invoke
    input,           \* the "input" value of the dict given to invoke
    hist,            \* config["configurable"]["message_history"]: object held by the invoke
    inner,           \* the dict the wrapped chain receives: {input, chat_history}
    ret,             \* position of the "context" branch (rewrite, then retrieve)
    mem,             \* position of the "memory" branch
    query,           \* output of the rewrite step
    retrieverQuery,  \* the query string the retriever was called with
    context,         \* documents returned by the retriever
    memory,          \* output of memory_chain
    request,         \* the dict handed to combine_docs_chain
    answer,          \* output of the chain
    err,             \* the exception the invoke raised, "none" if none
    histBefore       \* the session's messages when the invoke started

vars == << history_store, heap, pc, session, input, hist, inner, ret, mem, query,
           retrieverQuery, context, memory, request, answer, err, histBefore >>

NoSession == 0
NoObj == 0
NoText == ""
NoRequest == [k \in {} |-> NoText]
NoInner == [input |-> NoText, chat_history |-> << >>]

HumanMessage(text) == [role |-> "user", text |-> text]
AIMessage(text) == [role |-> "assistant", text |-> text]

\* The messages a session holds; a session not in the store holds none.
SessionMessages(sid) ==
    IF sid \in DOMAIN history_store THEN heap[history_store[sid]] ELSE << >>

Init ==
    /\ history_store = [s \in {} |-> NoObj]
    /\ heap = << >>
    /\ pc = [r \in Threads |-> "idle"]
    /\ session = [r \in Threads |-> NoSession]
    /\ input = [r \in Threads |-> NoText]
    /\ hist = [r \in Threads |-> NoObj]
    /\ inner = [r \in Threads |-> NoInner]
    /\ ret = [r \in Threads |-> "idle"]
    /\ mem = [r \in Threads |-> "idle"]
    /\ query = [r \in Threads |-> NoText]
    /\ retrieverQuery = [r \in Threads |-> NoText]
    /\ context = [r \in Threads |-> {}]
    /\ memory = [r \in Threads |-> NoText]
    /\ request = [r \in Threads |-> NoRequest]
    /\ answer = [r \in Threads |-> NoText]
    /\ err = [r \in Threads |-> "none"]
    /\ histBefore = [r \in Threads |-> << >>]

\* ---- invoke({"input": text}, config={"configurable": {"session_id": sid}}) ----
Invoke(r, sid, text) ==
    /\ pc[r] = "idle"
    /\ Len(SessionMessages(sid)) + 2 <= MaxHistLen
    /\ pc' = [pc EXCEPT ![r] = "gh_check"]
    /\ session' = [session EXCEPT ![r] = sid]
    /\ input' = [input EXCEPT ![r] = text]
    /\ histBefore' = [histBefore EXCEPT ![r] = SessionMessages(sid)]
    /\ UNCHANGED << history_store, heap, hist, inner, ret, mem, query, retrieverQuery,
                    context, memory, request, answer, err >>

\* A caller that waits for one invoke to return before it starts the next.
InvokeSeq(r, sid, text) ==
    /\ \A o \in Threads : pc[o] = "idle"
    /\ Invoke(r, sid, text)

\* ---- _get_history(session_id), one step per statement ----
GetHistoryCheckAlwaysCreates(r) ==
    /\ pc[r] = "gh_check"
    /\ pc' = [pc EXCEPT ![r] = "gh_create"]
    /\ UNCHANGED << history_store, heap, session, input, hist, inner, ret, mem, query,
                    retrieverQuery, context, memory, request, answer, err, histBefore >>

\* `if session_id not in self.history_store:`
GetHistoryCheck(r) ==
    /\ pc[r] = "gh_check"
    /\ pc' = [pc EXCEPT ![r] =
                IF session[r] \notin DOMAIN history_store THEN "gh_create" ELSE "gh_return"]
    /\ UNCHANGED << history_store, heap, session, input, hist, inner, ret, mem, query,
                    retrieverQuery, context, memory, request, answer, err, histBefore >>

\* `self.history_store[session_id] = ChatMessageHistory()`
Register(store, sid, obj) ==
    [s \in DOMAIN store \cup {sid} |-> IF s = sid THEN obj ELSE store[s]]

GetHistoryCreate(r) ==
    /\ pc[r] = "gh_create"
    /\ heap' = Append(heap, << >>)
    /\ history_store' = Register(history_store, session[r], Len(heap) + 1)
    /\ pc' = [pc EXCEPT ![r] = "gh_return"]
    /\ UNCHANGED << session, input, hist, inner, ret, mem, query, retrieverQuery,
                    context, memory, request, answer, err, histBefore >>

\* `return self.history_store[session_id]`
GetHistoryReturn(r) ==
    /\ pc[r] = "gh_return"
    /\ hist' = [hist EXCEPT ![r] = history_store[session[r]]]
    /\ pc' = [pc EXCEPT ![r] = "enter"]
    /\ UNCHANGED << history_store, heap, session, input, inner, ret, mem, query,
                    retrieverQuery, context, memory, request, answer, err, histBefore >>

EnterHistoryRecordsInput(r) ==
    /\ pc[r] = "enter"
    /\ heap' = [heap EXCEPT ![hist[r]] = Append(@, HumanMessage(input[r]))]
    /\ inner' = [inner EXCEPT ![r] = [input |-> input[r], chat_history |-> heap[hist[r]]]]
    /\ pc' = [pc EXCEPT ![r] = "parallel"]
    /\ ret' = [ret EXCEPT ![r] = "start"]
    /\ mem' = [mem EXCEPT ![r] = "start"]
    /\ UNCHANGED << history_store, session, input, hist, query, retrieverQuery,
                    context, memory, request, answer, err, histBefore >>

\* ---- RunnableWithMessageHistory: insert a copy of the stored messages under
\* chat_history (hist.messages.copy(): later writes to the history do not show) ----
EnterHistory(r) ==
    /\ pc[r] = "enter"
    /\ inner' = [inner EXCEPT ![r] = [input |-> input[r], chat_history |-> heap[hist[r]]]]
    /\ pc' = [pc EXCEPT ![r] = "parallel"]
    /\ ret' = [ret EXCEPT ![r] = "start"]
    /\ mem' = [mem EXCEPT ![r] = "start"]
    /\ UNCHANGED << history_store, heap, session, input, hist, query, retrieverQuery,
                    context, memory, request, answer, err, histBefore >>

RewriteAlwaysByModel(r) ==
    /\ pc[r] = "parallel"
    /\ ret[r] = "start"
    /\ \E q \in Queries :
          /\ query' = [query EXCEPT ![r] = q]
          /\ ret' = [ret EXCEPT ![r] = "rewritten"]
    /\ UNCHANGED << history_store, heap, pc, session, input, hist, inner, mem,
                    retrieverQuery, context, memory, request, answer, err, histBefore >>

RetrieveOnRawInput(r) ==
    /\ pc[r] = "parallel"
    /\ ret[r] \in {"start", "rewritten"}
    /\ retrieverQuery' = [retrieverQuery EXCEPT ![r] = inner[r].input]
    /\ \E d \in SUBSET Docs :
          /\ Cardinality(d) <= TopK
          /\ context' = [context EXCEPT ![r] = d]
          /\ ret' = [ret EXCEPT ![r] = "done"]
    /\ UNCHANGED << history_store, heap, pc, session, input, hist, inner, mem, query,
                    memory, request, answer, err, histBefore >>

\* ---- the "context" branch: history_aware_retriever ----
\* create_history_aware_retriever is a branch: with no chat_history the raw input
\* goes to the retriever, otherwise rewrite_prompt | model | StrOutputParser does.
\* The model call is the external generation backend: it answers or raises.
Rewrite(r) ==
    /\ pc[r] = "parallel"
    /\ ret[r] = "start"
    /\ IF inner[r].chat_history = << >>
       THEN /\ query' = [query EXCEPT ![r] = inner[r].input]
            /\ ret' = [ret EXCEPT ![r] = "rewritten"]
       ELSE \/ \E q \in Queries :
                 /\ query' = [query EXCEPT ![r] = q]
                 /\ ret' = [ret EXCEPT ![r] = "rewritten"]
            \/ /\ ret' = [ret EXCEPT ![r] = "rewrite_failed"]
               /\ UNCHANGED query
    /\ UNCHANGED << history_store, heap, pc, session, input, hist, inner, mem,
                    retrieverQuery, context, memory, request, answer, err, histBefore >>

\* The retriever is the next element of the same sequence: it runs on the rewrite's
\* output. It returns at most k documents, or raises.
Retrieve(r) ==
    /\ pc[r] = "parallel"
    /\ ret[r] = "rewritten"
    /\ retrieverQuery' = [retrieverQuery EXCEPT ![r] = query[r]]
    /\ \/ \E d \in SUBSET Docs :
            /\ Cardinality(d) <= TopK
            /\ context' = [context EXCEPT ![r] = d]
            /\ ret' = [ret EXCEPT ![r] = "done"]
       \/ /\ ret' = [ret EXCEPT ![r] = "retrieve_failed"]
          /\ UNCHANGED context
    /\ UNCHANGED << history_store, heap, pc, session, input, hist, inner, mem, query,
                    memory, request, answer, err, histBefore >>

\* ---- the "memory" branch: memory_prompt | model | StrOutputParser ----
Summarize(r) ==
    /\ pc[r] = "parallel"
    /\ mem[r] = "start"
    /\ \/ \E m \in Memories :
            /\ memory' = [memory EXCEPT ![r] = m]
            /\ mem' = [mem EXCEPT ![r] = "done"]
       \/ /\ mem' = [mem EXCEPT ![r] = "summarize_failed"]
          /\ UNCHANGED memory
    /\ UNCHANGED << history_store, heap, pc, session, input, hist, inner, ret, query,
                    retrieverQuery, context, request, answer, err, histBefore >>

\* ---- the map {"context": ..., "memory": ..., "input": RunnablePassthrough()} ----
\* RunnablePassthrough returns what it is given; every branch of the map is given
\* the map's own input, the dict {input, chat_history}.
RunnablePassthrough(x) == x

RagMap(r) ==
    [context |-> context[r], memory |-> memory[r], input |-> RunnablePassthrough(inner[r])]

BranchFailed(b) == b \in {"rewrite_failed", "retrieve_failed", "summarize_failed"}
BranchFinished(b) == b = "done" \/ BranchFailed(b)

JoinReadyContextOnly(r) == BranchFinished(ret[r])

\* The map waits for every future of its thread pool.
JoinReady(r) == BranchFinished(ret[r]) /\ BranchFinished(mem[r])

\* The map returns when every branch has finished; the first branch, in the map's
\* order, that raised decides the exception, else the result goes to combine_docs_chain.
Join(r) ==
    /\ pc[r] = "parallel"
    /\ JoinReady(r)
    /\ IF BranchFailed(ret[r])
       THEN /\ pc' = [pc EXCEPT ![r] = "error"]
            /\ err' = [err EXCEPT ![r] = ret[r]]
            /\ UNCHANGED request
       ELSE IF BranchFailed(mem[r])
       THEN /\ pc' = [pc EXCEPT ![r] = "error"]
            /\ err' = [err EXCEPT ![r] = mem[r]]
            /\ UNCHANGED request
       ELSE /\ pc' = [pc EXCEPT ![r] = "generating"]
            /\ request' = [request EXCEPT ![r] = RagMap(r)]
            /\ UNCHANGED err
    /\ UNCHANGED << history_store, heap, session, input, hist, inner, ret, mem, query,
                    retrieverQuery, context, memory, answer, histBefore >>

\* ---- combine_docs_chain = create_stuff_documents_chain(model, qa_prompt) ----
\* qa_prompt: {memory} and {context} in the system text, MessagesPlaceholder
\* "chat_history", {input} in the human text. None is optional.
QaPromptVars == {"memory", "context", "chat_history", "input"}

\* RunnableWithMessageHistory on a successful end: the message under "input" of the
\* wrapped chain's input, then the chain's output, are added to the history object.
ExitHistory(h, o, in, out) ==
    [h EXCEPT ![o] = (@ \o << HumanMessage(in.input) >>) \o << AIMessage(out) >>]

\* Formatting the prompt raises KeyError when a variable is missing from the dict;
\* otherwise the model is called and answers or raises. The history is written only
\* when the chain has returned an answer.
Generate(r) ==
    /\ pc[r] = "generating"
    /\ IF QaPromptVars \ DOMAIN request[r] # {}
       THEN /\ pc' = [pc EXCEPT ![r] = "error"]
            /\ err' = [err EXCEPT ![r] = "KeyError"]
            /\ UNCHANGED << heap, answer >>
       ELSE \/ \E a \in Answers :
                 /\ answer' = [answer EXCEPT ![r] = a]
                 /\ heap' = ExitHistory(heap, hist[r], inner[r], a)
                 /\ pc' = [pc EXCEPT ![r] = "done"]
                 /\ UNCHANGED err
            \/ /\ pc' = [pc EXCEPT ![r] = "error"]
               /\ err' = [err EXCEPT ![r] = "generate_failed"]
               /\ UNCHANGED << heap, answer >>
    /\ UNCHANGED << history_store, session, input, hist, inner, ret, mem, query,
                    retrieverQuery, context, memory, request, histBefore >>

\* invoke returns the answer or raises to the caller; the thread may call again.
Return(r) ==
    /\ pc[r] \in {"done", "error"}
    /\ pc' = [pc EXCEPT ![r] = "idle"]
    /\ session' = [session EXCEPT ![r] = NoSession]
    /\ input' = [input EXCEPT ![r] = NoText]
    /\ hist' = [hist EXCEPT ![r] = NoObj]
    /\ inner' = [inner EXCEPT ![r] = NoInner]
    /\ ret' = [ret EXCEPT ![r] = "idle"]
    /\ mem' = [mem EXCEPT ![r] = "idle"]
    /\ query' = [query EXCEPT ![r] = NoText]
    /\ retrieverQuery' = [retrieverQuery EXCEPT ![r] = NoText]
    /\ context' = [context EXCEPT ![r] = {}]
    /\ memory' = [memory EXCEPT ![r] = NoText]
    /\ request' = [request EXCEPT ![r] = NoRequest]
    /\ answer' = [answer EXCEPT ![r] = NoText]
    /\ err' = [err EXCEPT ![r] = "none"]
    /\ histBefore' = [histBefore EXCEPT ![r] = << >>]
    /\ UNCHANGED << history_store, heap >>

Step(r) ==
    \/ GetHistoryCheck(r)
    \/ GetHistoryCreate(r)
    \/ GetHistoryReturn(r)
    \/ EnterHistory(r)
    \/ Rewrite(r)
    \/ Retrieve(r)
    \/ Summarize(r)
    \/ Join(r)
    \/ Generate(r)
    \/ Return(r)

\* One invoke at a time: the chain as a single caller drives it.
Next ==
    \/ \E r \in Threads, sid \in Sessions, text \in Inputs : InvokeSeq(r, sid, text)
    \/ \E r \in Threads : Step(r)

Spec == Init /\ [][Next]_vars

\* Invokes from several caller threads at once.
NextConc ==
    \/ \E r \in Threads, sid \in Sessions, text \in Inputs : Invoke(r, sid, text)
    \/ \E r \in Threads : Step(r)

SpecConc == Init /\ [][NextConc]_vars

\* ======================= properties =======================

\* Exceptions raised by the external collaborators (the model, the retriever).
UpstreamFailures ==
    {"rewrite_failed", "retrieve_failed", "summarize_failed", "generate_failed"}

Ended(r) == pc[r] \in {"done", "error"}

\* The two entries a turn of thread r records.
TurnEntries(r) == << HumanMessage(input[r]), AIMessage(answer[r]) >>

C2_FailedTurnLeavesHistory ==
    \A r \in Threads :
        pc[r] = "error" =>
            /\ err[r] # "none"
            /\ answer[r] = NoText
            /\ SessionMessages(session[r]) = histBefore[r]

\* C2 witness: a turn aborted by a failing retriever or a failing summarizer.
C2_Witness ==
    \E r \in Threads :
        /\ pc[r] = "error"
        /\ err[r] \in {"retrieve_failed", "summarize_failed"}
        /\ session[r] \in DOMAIN history_store

\* C3: a session id not yet in the store gets a new, empty history registered; an id
\* in the store keeps its history object for ever; and _get_history returns the
\* object the store holds for the id.
C3_GetHistoryIdempotent ==
    [][ /\ \A s \in DOMAIN history_store :
              s \in DOMAIN history_store' /\ history_store'[s] = history_store[s]
        /\ \A s \in (DOMAIN history_store') \ (DOMAIN history_store) :
              /\ history_store'[s] \in 1..Len(heap')
              /\ heap'[history_store'[s]] = << >>
        /\ \A r \in Threads :
              (pc[r] = "gh_return" /\ pc'[r] = "enter") =>
                  /\ hist'[r] # NoObj
                  /\ hist'[r] = history_store'[session[r]]
      ]_vars

\* C3 witness: with two sessions registered, a later call for the session registered
\* first has returned that session's object.
C3_Witness ==
    \E r \in Threads :
        /\ pc[r] = "enter"
        /\ Len(heap) = 2
        /\ hist[r] = 1
        /\ history_store[session[r]] = 1

\* C4: when generation starts, the chat_history it is given is the one the rewrite
\* step and the summarizer were given, and that is the session's history before the
\* current turn.
C4_SameChatHistoryEverywhere ==
    \A r \in Threads :
        pc[r] = "generating" =>
            /\ "chat_history" \in DOMAIN request[r]
            /\ request[r].chat_history = inner[r].chat_history
            /\ inner[r].chat_history = histBefore[r]

\* C5: generation has started (or gone further) only if both the retrieval branch
\* and the summarizing branch have produced their results, which are the ones in
\* the request.
C5_GenerateAfterBothBranches ==
    \A r \in Threads :
        (pc[r] \in {"generating", "done"} \/ err[r] \in {"KeyError", "generate_failed"}) =>
            /\ ret[r] = "done"
            /\ mem[r] = "done"
            /\ request[r].context = context[r]
            /\ request[r].memory = memory[r]
            /\ memory[r] \in Memories

\* C5 witness: generation started with documents retrieved and preferences summarized.
C5_Witness ==
    \E r \in Threads :
        /\ pc[r] = "generating"
        /\ request[r].context # {}
        /\ request[r].memory = "prefs"

\* C6: the retriever has been queried only if the rewrite step of the turn has
\* produced its query, and the query the retriever received is that output.
C6_RewriteBeforeRetrieve ==
    \A r \in Threads :
        /\ retrieverQuery[r] # NoText =>
              /\ ret[r] \in {"done", "retrieve_failed"}
              /\ query[r] # NoText
              /\ retrieverQuery[r] = query[r]
        /\ ret[r] \in {"idle", "start"} => (query[r] = NoText /\ context[r] = {})

\* C6 witness: the retriever answered the query the rewrite step produced.
C6_Witness ==
    \E r \in Threads :
        /\ ret[r] = "done"
        /\ query[r] = "b"
        /\ retrieverQuery[r] = "b"
        /\ context[r] # {}

\* C7: when chat_history is empty, the query the retriever receives is the raw input
\* given to invoke.
C7_EmptyHistoryRawInput ==
    \A r \in Threads :
        (inner[r].chat_history = << >> /\ ret[r] \in {"rewritten", "done", "retrieve_failed"}) =>
            /\ query[r] = input[r]
            /\ (ret[r] # "rewritten" => retrieverQuery[r] = input[r])

\* C7 witness: first turn of a session, retriever queried with the raw input "a".
C7_Witness ==
    \E r \in Threads :
        /\ histBefore[r] = << >>
        /\ inner[r].chat_history = << >>
        /\ input[r] = "a"
        /\ ret[r] = "done"
        /\ retrieverQuery[r] = "a"

\* C8: the request given to the final generation step has exactly the fields input,
\* chat_history, context and memory, and its input field is the raw input text.
C8_RequestHasFourFields ==
    \A r \in Threads :
        pc[r] = "generating" =>
            /\ DOMAIN request[r] = {"input", "chat_history", "context", "memory"}
            /\ request[r].input = input[r]

C10_OneHistoryPerSession ==
    /\ Len(heap) = Cardinality(DOMAIN history_store)
    /\ \A r \in Threads :
          hist[r] # NoObj => history_store[session[r]] = hist[r]

====
